---- MODULE Spec2Model ----
(***************************************************************************)
(* A model of hyperboard/notifier.                                         *)
(*                                                                         *)
(*   QueueService      src/src/services/MetricsCache.ts  (lines 92-211)    *)
(*   TelegramNotifier  src/src/index.ts                  (lines 99-454)    *)
(*                                                                         *)
(* The two classes share no state (index.ts constructs only the            *)
(* TelegramNotifier), so each has its own specification; the variable      *)
(* `service' tells which of them a behaviour runs.                         *)
(*                                                                         *)
(* Times are in milliseconds, as Date.getTime() gives them.                *)
(***************************************************************************)
EXTENDS Integers, Sequences, FiniteSets, TLC

VARIABLES
    service,        \* which class this behaviour runs
    \* ---- QueueService ----
    queue,          \* QueueService.queue: QueuedMessage[]
    isProcessing,   \* QueueService.isProcessing
    passes,         \* activations of processQueue suspended at `await sendMessage'
    clock,          \* the wall clock, what `new Date()' reads
    nextId,         \* number of addToQueue calls made so far (ids are 1..nextId)
    sendLog,        \* history: per message id, the transport's successes and failures
    dropped,        \* history: ids of the messages given up on (line 176-184)
    \* ---- TelegramNotifier: outbound ----
    isEnabled,          \* TelegramNotifier.isEnabled
    chats,              \* the rows of table telegram_chats (their chatId)
    messageQueue,       \* TelegramNotifier.messageQueue
    isProcessingQueue,  \* TelegramNotifier.isProcessingQueue
    sending,            \* activations of processMessageQueue, each suspended at an await
    nextMsg,            \* number of broadcastMessage calls made so far
    deliveryLog,        \* history: per (broadcast, chat), the transport's successes and failures
    produced,           \* history: per broadcast, the text before truncateMessage
    responses,          \* history: per broadcast, how the call ended for its caller
    \* ---- TelegramNotifier: inbound ----
    started,        \* how start() ended: "no" before it is called
    offset,         \* `offset' of startPolling
    pollPc,         \* where poll() is suspended
    batch,          \* ids of what is left of updates.result, the one in handling first
    inbox,          \* the ids of the updates the transport holds, unconfirmed
    nextUpdateId,   \* the id the transport gives the next update
    handledLog,     \* history: the update ids handleUpdate was called with
    thrown,         \* history: the update ids whose handleUpdate threw
    lastUpdate,     \* history: the update the last handleUpdate was given
    lastReplies,    \* history: the sendMessage requests of the last handleUpdate
    requestFailures,    \* history: number of getUpdates requests that failed
    \* ---- the two MetricsCache classes ----
    metrics,        \* services/MetricsCache.ts: MetricsCache.metrics (an array)
    snapshot,       \* logger.ts: MetricsCache.metrics (<<>> is null)
    metricsClock,   \* what `new Date()' reads in the updates
    everStored,     \* history: the source ids that have had a snapshot in `metrics'
    \* ---- pure functions under test ----
    call,           \* the function called and its argument
    ret             \* what it returned: <<>> before the call, <<value>> after

queueVars == <<queue, isProcessing, passes, clock, nextId, sendLog, dropped>>
outVars == <<isEnabled, chats, messageQueue, isProcessingQueue, sending, nextMsg,
             deliveryLog, produced,
            responses>>
pollVars == <<started, offset, pollPc, batch, inbox, nextUpdateId, handledLog, thrown, lastUpdate, lastReplies,
              requestFailures>>
metricsVars == <<metrics, snapshot, metricsClock, everStored>>
pureVars == <<call, ret>>
vars == <<service, queueVars, outVars, pollVars, metricsVars, pureVars>>

----------------------------------------------------------------------------
(* Bounds of the model *)

\* addToQueue is called at most this many times
MaxMessages == 2

\* the transport of QueueService rejects at most this many sends in all
MaxSendFailures == 11

\* broadcastMessage is called at most this many times
MaxBroadcasts == 2

\* the transport of TelegramNotifier fails at most this many sendMessage fetches
MaxFetchFailures == 3

\* the longest text given to broadcastMessage
MaxTextLen == 5000

\* the largest argument given to getRetryDelay
MaxAttemptsArg == 100
FirstUpdateId == 5
MaxUpdates == 3
MaxRequestFailures == 1

\* the number of cache updates
MaxMetricsUpdates == 3

----------------------------------------------------------------------------
(* QueueService: constants and pure helpers *)

maxAttempts == 10

retryDelays == <<1000, 5000, 30000, 60000, 300000, 900000, 3600000>>

Types == {"message", "metrics"}

Min(a, b) == IF a < b THEN a ELSE b

getRetryDelay_Uncapped(attempts) ==
    LET index == attempts - 1
    IN  IF index + 1 \in DOMAIN retryDelays THEN retryDelays[index + 1] ELSE -1

\* retryDelays[index] of a JavaScript array: index -1 (attempts = 0) reads
\* `undefined'; the model gives that case the value -1, which no table entry has.
getRetryDelay(attempts) ==
    LET index == Min(attempts - 1, Len(retryDelays) - 1)
    IN  IF index + 1 \in DOMAIN retryDelays THEN retryDelays[index + 1] ELSE -1

\* An optional Date is <<>> (absent) or <<t>>.
NoDate == <<>>

\* the message object built by addToQueue (lines 121-127)
NewMessage(id, type, now) ==
    [id |-> id, type |-> type, attempts |-> 0, lastAttempt |-> NoDate, createdAt |-> now]

IsReady_OnlyNew(message, now) == message.lastAttempt = NoDate

IsReady_LateBoundary(message, now) ==
    IF message.lastAttempt # NoDate
    THEN ~(now - message.lastAttempt[1] <= getRetryDelay(message.attempts))
    ELSE TRUE

\* lines 147-153: the test that sends `message' to the transport in a pass
\* started at `now' (FALSE: the message is pushed back and skipped).
IsReady(message, now) ==
    IF message.lastAttempt # NoDate
    THEN ~(now - message.lastAttempt[1] < getRetryDelay(message.attempts))
    ELSE TRUE

CanRetry_OneMore(message) == message.attempts <= maxAttempts

CanRetry_OneLess(message) == message.attempts < maxAttempts - 1

\* line 163
CanRetry(message) == message.attempts < maxAttempts

Retried_CountKept(message, now) == [message EXCEPT !.lastAttempt = <<now>>]

\* lines 164-165
Retried(message, now) ==
    [message EXCEPT !.attempts = @ + 1, !.lastAttempt = <<now>>]

\* The loop of lines 146-186 from its current position up to the next
\* `await sendMessage': every message that is not ready is pushed back on the
\* queue; the loop stops in front of the first ready one.
RECURSIVE Scan(_, _, _)
Scan(q, now, messages) ==
    IF messages = <<>> THEN [queue |-> q, rest |-> <<>>]
    ELSE IF IsReady(Head(messages), now) THEN [queue |-> q, rest |-> messages]
    ELSE Scan(Append(q, Head(messages)), now, Tail(messages))

Snapshot_NotCleared(q) == [messages |-> q, queue |-> q]

\* lines 143-144: the copy the pass iterates over, and the queue left behind
Snapshot(q) == [messages |-> q, queue |-> <<>>]

PassGuard_NoFlag(q) == Len(q) = 0

\* line 138
PassGuard(q) == isProcessing \/ Len(q) = 0

RemoveAt(s, i) == SubSeq(s, 1, i - 1) \o SubSeq(s, i + 1, Len(s))

----------------------------------------------------------------------------
(* Strings.  A string is kept as its runs: <<[ch |-> "a", n |-> 3], [ch |-> "b",
   n |-> 1]>> is "aaab".  No run is empty and neighbouring runs differ in ch,
   so equal strings have equal representations. *)

Run(ch, n) == IF n = 0 THEN <<>> ELSE <<[ch |-> ch, n |-> n]>>

\* String.prototype.length
RECURSIVE StrLen(_)
StrLen(str) == IF str = <<>> THEN 0 ELSE Head(str).n + StrLen(Tail(str))

\* a + b
Concat(a, b) ==
    IF a = <<>> THEN b
    ELSE IF b = <<>> THEN a
    ELSE IF a[Len(a)].ch = Head(b).ch
         THEN SubSeq(a, 1, Len(a) - 1)
                \o <<[ch |-> Head(b).ch, n |-> a[Len(a)].n + Head(b).n]>>
                \o Tail(b)
         ELSE a \o b

\* str.substring(0, k), k >= 0
RECURSIVE Prefix(_, _)
Prefix(str, k) ==
    IF str = <<>> \/ k = 0 THEN <<>>
    ELSE IF Head(str).n <= k
         THEN <<Head(str)>> \o Prefix(Tail(str), k - Head(str).n)
         ELSE <<[ch |-> Head(str).ch, n |-> k]>>

\* str.substring(k)
RECURSIVE Suffix(_, _)
Suffix(str, k) ==
    IF str = <<>> \/ k = 0 THEN str
    ELSE IF Head(str).n <= k THEN Suffix(Tail(str), k - Head(str).n)
         ELSE <<[ch |-> Head(str).ch, n |-> Head(str).n - k]>> \o Tail(str)

\* the string of the characters chars[1], chars[2], ...
RECURSIVE Str(_)
Str(chars) ==
    IF chars = <<>> THEN <<>> ELSE Concat(Run(Head(chars), 1), Str(Tail(chars)))

----------------------------------------------------------------------------
(* TelegramNotifier: formatMessage and truncateMessage *)

MAX_LENGTH == 4096

\* "\n... [message truncated]" (line 416)
TruncationMarker ==
    Str(<<"\n", ".", ".", ".", " ", "[", "m", "e", "s", "s", "a", "g", "e", " ",
          "t", "r", "u", "n", "c", "a", "t", "e", "d", "]">>)

\* "\n[#] Board: " (line 377)
BoardLabel == Str(<<"\n", "[", "#", "]", " ", "B", "o", "a", "r", "d", ":", " ">>)

truncateMessage_FullLength(message) ==
    IF StrLen(message) > MAX_LENGTH
    THEN Concat(Prefix(message, MAX_LENGTH), TruncationMarker)
    ELSE message

\* lines 413-419
truncateMessage(message) ==
    IF StrLen(message) > MAX_LENGTH
    THEN Concat(Prefix(message, MAX_LENGTH - 100), TruncationMarker)
    ELSE message

\* parts.join("") of lines 374-410.  meta.boardId is a string ("" and absent
\* are both falsy); the blocks of lines 382-396 and 401-407 are given as
\* rendered (the empty string: the context is absent).
JoinedParts(message) ==
    Concat(message.text,
      Concat(IF message.meta.boardId # <<>>
             THEN Concat(BoardLabel, message.meta.boardId) ELSE <<>>,
        Concat(message.meta.operationContext, message.meta.errorContext)))

\* lines 373-411
formatMessage(message) == truncateMessage(JoinedParts(message))

----------------------------------------------------------------------------
(* QueueService: state after construction, and its operations *)

InitQueueVars ==
    /\ queue = <<>>
    /\ isProcessing = FALSE
    /\ passes = <<>>
    /\ clock = 0
    /\ nextId = 0
    /\ sendLog = [id \in 1..MaxMessages |-> [ok |-> 0, fail |-> 0]]
    /\ dropped = {}

\* processQueue called with the queue holding `q': lines 137-145, then the loop
\* up to its first `await sendMessage'; a pass in which no message is ready
\* runs to its end (the `finally' of line 187) without suspending.
processQueue(q) ==
    IF PassGuard(q)
    THEN /\ queue' = q
         /\ UNCHANGED <<isProcessing, passes>>
    ELSE LET snap == Snapshot(q)
             r == Scan(snap.queue, clock, snap.messages)
         IN  /\ queue' = r.queue
             /\ IF r.rest = <<>>
                THEN /\ isProcessing' = FALSE
                     /\ UNCHANGED passes
                ELSE /\ isProcessing' = TRUE
                     /\ passes' = Append(passes, [now |-> clock, rest |-> r.rest])

\* addToQueue (lines 116-135): push, then processQueue() up to its first await.
addToQueue(type) ==
    /\ nextId < MaxMessages
    /\ nextId' = nextId + 1
    /\ processQueue(Append(queue, NewMessage(nextId + 1, type, clock)))
    /\ UNCHANGED <<clock, sendLog, dropped>>

\* the timer of line 113
Tick ==
    /\ processQueue(queue)
    /\ UNCHANGED <<clock, nextId, sendLog, dropped>>

\* The loop after the send of the head of passes[i].rest has been settled:
\* `q' is the queue then. Lines 146-153 for the following messages, and the
\* `finally' when none is left to send.
Continue(i, q) ==
    LET p == passes[i]
        r == Scan(q, p.now, Tail(p.rest))
    IN  /\ queue' = r.queue
        /\ IF r.rest = <<>>
           THEN /\ isProcessing' = FALSE
                /\ passes' = RemoveAt(passes, i)
           ELSE /\ passes' = [passes EXCEPT ![i].rest = r.rest]
                /\ UNCHANGED isProcessing

\* `await this.sendMessage(message.payload)' of pass i resolves (line 156).
SendOk(i) ==
    /\ i \in DOMAIN passes
    /\ LET message == Head(passes[i].rest)
       IN  /\ sendLog' = [sendLog EXCEPT ![message.id].ok = @ + 1]
           /\ Continue(i, queue)
    /\ UNCHANGED <<clock, nextId, dropped>>

RECURSIVE FailsUpTo(_)
FailsUpTo(n) == IF n = 0 THEN 0 ELSE sendLog[n].fail + FailsUpTo(n - 1)

Requeue_Overwrites(q, message) == <<message>>

\* line 166
Requeue(q, message) == Append(q, message)

\* it rejects: the catch of lines 157-185.
SendFail(i) ==
    /\ i \in DOMAIN passes
    /\ FailsUpTo(MaxMessages) < MaxSendFailures
    /\ LET message == Head(passes[i].rest)
       IN  /\ sendLog' = [sendLog EXCEPT ![message.id].fail = @ + 1]
           /\ IF CanRetry(message)
              THEN /\ Continue(i, Requeue(queue, Retried(message, clock)))
                   /\ UNCHANGED dropped
              ELSE /\ Continue(i, queue)
                   /\ dropped' = dropped \cup {message.id}
    /\ UNCHANGED <<clock, nextId>>

\* getQueueStatus (lines 197-210)
getQueueStatus ==
    [totalMessages |-> Len(queue),
     messagesByType |->
        [t \in {queue[k].type : k \in DOMAIN queue} |->
            Cardinality({k \in DOMAIN queue : queue[k].type = t})],
     oldestMessage |-> IF Len(queue) > 0 THEN <<queue[1].createdAt>> ELSE NoDate]

\* The messages the service holds: queued, or in the snapshot of a running pass.
Held ==
    {queue[k] : k \in DOMAIN queue}
        \cup UNION {{passes[i].rest[k] : k \in DOMAIN passes[i].rest} : i \in DOMAIN passes}

\* Time passes: the clock moves to the next instant at which a held message
\* becomes ready (lastAttempt + getRetryDelay(attempts)).
ReadyInstants ==
    {m.lastAttempt[1] + getRetryDelay(m.attempts) :
        m \in {h \in Held : h.lastAttempt # NoDate}}

Advance ==
    /\ \E t \in ReadyInstants :
          /\ t > clock
          /\ \A u \in ReadyInstants : u > clock => t <= u
          /\ clock' = t
    /\ UNCHANGED <<queue, isProcessing, passes, nextId, sendLog, dropped>>


----------------------------------------------------------------------------
(* TelegramNotifier: broadcastMessage and processMessageQueue *)

maxRetries == 3

Chats == {"A", "B"}

NoMeta == [boardId |-> <<>>, operationContext |-> <<>>, errorContext |-> <<>>]

InitOutVars ==
    /\ isEnabled = TRUE
    /\ chats = {}
    /\ messageQueue = <<>>
    /\ isProcessingQueue = FALSE
    /\ sending = <<>>
    /\ nextMsg = 0
    /\ deliveryLog = [e \in (1..MaxBroadcasts) \X Chats |-> [ok |-> 0, fail |-> 0]]
    /\ produced = [n \in 1..MaxBroadcasts |-> <<>>]
    /\ responses = [n \in 1..MaxBroadcasts |-> "none"]

\* the object pushed at lines 359-363 (msg: the number of the broadcast)
Entry(n, chatId, formattedMessage) ==
    [msg |-> n, chatId |-> chatId, message |-> formattedMessage, options |-> "Markdown"]

\* the loop of lines 358-364 over the rows `rows', in their order
RECURSIVE PushAll(_, _, _, _)
PushAll(q, n, rows, formattedMessage) ==
    IF rows = <<>> THEN q
    ELSE PushAll(Append(q, Entry(n, Head(rows), formattedMessage)), n, Tail(rows),
                 formattedMessage)

\* the orders in which `db.select().from(telegramChats)' may give the rows
Orders(set) ==
    {o \in [1..Cardinality(set) -> set] : \A c \in set : \E k \in DOMAIN o : o[k] = c}

QueueGuard_Off == FALSE

\* line 178
QueueGuard == isProcessingQueue

\* One activation starts on an entry: retryWithBackoff's i = 0 and the fetch
\* of sendTelegramRequest under way (lines 182-190, 128-130, 159).
Started(entry) == [msg |-> entry, i |-> 0, at |-> "fetch"]

\* processMessageQueue called with messageQueue holding `q' (lines 177-198),
\* up to its first await.
processMessageQueue(q) ==
    IF QueueGuard
    THEN /\ messageQueue' = q
         /\ UNCHANGED <<isProcessingQueue, sending>>
    ELSE IF q = <<>>
         THEN /\ messageQueue' = q
              /\ isProcessingQueue' = FALSE
              /\ UNCHANGED sending
         ELSE /\ messageQueue' = Tail(q)
              /\ isProcessingQueue' = TRUE
              /\ sending' = Append(sending, Started(Head(q)))

\* the `while' of line 181 tested again by activation k
LoopNext(k) ==
    IF messageQueue = <<>>
    THEN /\ sending' = RemoveAt(sending, k)
         /\ isProcessingQueue' = FALSE
         /\ UNCHANGED messageQueue
    ELSE /\ sending' = [sending EXCEPT ![k] = Started(Head(messageQueue))]
         /\ messageQueue' = Tail(messageQueue)
         /\ UNCHANGED isProcessingQueue

\* what `await db.select().from(telegramChats)' may give: the rows in some
\* order, or a rejection
Selects ==
    {[ok |-> TRUE, rows |-> o] : o \in Orders(chats)} \cup {[ok |-> FALSE, rows |-> <<>>]}

\* the catch of lines 367-370: the error of the select is thrown on
DirectoryFailure == "error"

\* broadcastMessage (lines 346-371); `select' is what line 356 gives. Its
\* caller, POST /notify or POST /metrics, answers "success", or "error" (500)
\* when it throws (lines 465-474, 491-501).
broadcastMessage(text, meta, select) ==
    /\ nextMsg < MaxBroadcasts
    /\ nextMsg' = nextMsg + 1
    /\ IF ~isEnabled
       THEN /\ responses' = [responses EXCEPT ![nextMsg + 1] = "success"]
            /\ UNCHANGED <<messageQueue, isProcessingQueue, sending, produced>>
       ELSE LET message == [text |-> text, meta |-> meta]
                formattedMessage == formatMessage(message)
            IN  /\ produced' = [produced EXCEPT ![nextMsg + 1] = JoinedParts(message)]
                /\ IF ~select.ok
                   THEN /\ responses' = [responses EXCEPT ![nextMsg + 1] = DirectoryFailure]
                        /\ UNCHANGED <<messageQueue, isProcessingQueue, sending>>
                   ELSE /\ responses' = [responses EXCEPT ![nextMsg + 1] = "success"]
                        /\ processMessageQueue(
                              PushAll(messageQueue, nextMsg + 1, select.rows,
                                      formattedMessage))
    /\ UNCHANGED <<isEnabled, chats, deliveryLog>>

Key(k) == <<sending[k].msg.msg, sending[k].msg.chatId>>

\* the fetch of line 159 succeeded with response.ok: retryWithBackoff returns,
\* and line 191 waits RATE_LIMIT_DELAY
FetchOk(k) ==
    /\ k \in DOMAIN sending
    /\ sending[k].at = "fetch"
    /\ deliveryLog' = [deliveryLog EXCEPT ![Key(k)].ok = @ + 1]
    /\ sending' = [sending EXCEPT ![k].at = "rateLimit"]
    /\ UNCHANGED <<isEnabled, chats, messageQueue, isProcessingQueue, nextMsg, produced, responses>>

RECURSIVE SumFails(_)
SumFails(keys) ==
    IF keys = {} THEN 0
    ELSE LET e == CHOOSE x \in keys : TRUE
         IN  deliveryLog[e].fail + SumFails(keys \ {e})

\* line 141
ShouldBackoff(i) == i < maxRetries - 1

LoopContinues_Never(i) == FALSE

\* the `i++' and the test of line 128
LoopContinues(i) == i + 1 < maxRetries

\* the next iteration of line 128 by activation k; when the loop ends, line
\* 147 throws and the error reaches the catch of line 192
Iterate(k) ==
    IF LoopContinues(sending[k].i)
    THEN /\ sending' = [sending EXCEPT ![k].i = @ + 1, ![k].at = "fetch"]
         /\ UNCHANGED <<messageQueue, isProcessingQueue>>
    ELSE LoopNext(k)

\* the fetch rejected, or the response was not ok (lines 165-172, 131-145)
FetchFail(k) ==
    /\ k \in DOMAIN sending
    /\ sending[k].at = "fetch"
    /\ SumFails(DOMAIN deliveryLog) < MaxFetchFailures
    /\ deliveryLog' = [deliveryLog EXCEPT ![Key(k)].fail = @ + 1]
    /\ IF ShouldBackoff(sending[k].i)
       THEN /\ sending' = [sending EXCEPT ![k].at = "backoff"]
            /\ UNCHANGED <<messageQueue, isProcessingQueue>>
       ELSE Iterate(k)
    /\ UNCHANGED <<isEnabled, chats, nextMsg, produced, responses>>

\* the timer of line 143 fires
BackoffElapsed(k) ==
    /\ k \in DOMAIN sending
    /\ sending[k].at = "backoff"
    /\ Iterate(k)
    /\ UNCHANGED <<isEnabled, chats, nextMsg, deliveryLog, produced, responses>>

\* the timer of line 191 fires
RateLimitElapsed(k) ==
    /\ k \in DOMAIN sending
    /\ sending[k].at = "rateLimit"
    /\ LoopNext(k)
    /\ UNCHANGED <<isEnabled, chats, nextMsg, deliveryLog, produced, responses>>

\* addChat (lines 426-444) and removeChat (446-448), as POST and DELETE
\* /admin/chats call them (lines 504-524)
addChat(chatId) ==
    /\ chats' = chats \cup {chatId}
    /\ UNCHANGED <<isEnabled, messageQueue, isProcessingQueue, sending, nextMsg,
                   deliveryLog, produced, responses>>

removeChat(chatId) ==
    /\ chats' = chats \ {chatId}
    /\ UNCHANGED <<isEnabled, messageQueue, isProcessingQueue, sending, nextMsg,
                   deliveryLog, produced, responses>>

----------------------------------------------------------------------------
(* TelegramNotifier: start, the polling loop and handleUpdate *)

appToken == "secret"

InitPollVars ==
    /\ started = "no"
    /\ offset = 0
    /\ pollPc = "off"
    /\ batch = <<>>
    /\ inbox = <<>>
    /\ nextUpdateId = FirstUpdateId
    /\ handledLog = <<>>
    /\ thrown = {}
    /\ lastUpdate = <<>>
    /\ lastReplies = <<>>
    /\ requestFailures = 0

\* the texts of inbound messages, as text.split(" ") gives them; <<>> is an
\* update without message.text
Texts ==
    {<<>>, <<"/start">>, <<"/subscribe">>, <<"/subscribe", "">>, <<"/subscribe", appToken>>,
     <<"/subscribe", "wrong">>, <<"/unsubscribe">>, <<"/metrics">>, <<"hello">>}

Update(id, chatId, text) == [update_id |-> id, chat |-> chatId, text |-> text]

\* what the awaits of one handleUpdate may give: the select of isSubscribed,
\* the statements of addChat or removeChat, and up to two sendMessage requests
Outcomes ==
    [read : BOOLEAN, write : {"ok", "failed", "verifyFailed"}, send1 : BOOLEAN,
     send2 : BOOLEAN]

Request(chatId, text, ok) == [chat_id |-> chatId, text |-> text, ok |-> ok]

Returned(dir, replies) == [chats |-> dir, replies |-> replies, threw |-> FALSE]

Threw(dir, replies) == [chats |-> dir, replies |-> replies, threw |-> TRUE]

\* `await this.sendTelegramRequest("sendMessage", ...)' as the last statement
\* of a path: its rejection leaves handleUpdate
Reply(dir, chatId, text, ok) ==
    IF ok THEN Returned(dir, <<Request(chatId, text, TRUE)>>)
    ELSE Threw(dir, <<Request(chatId, text, FALSE)>>)

\* a try block whose statement on the directory gave `dir' (lines 304-316 and
\* 320-332): the reply, and the reply of the catch if that one is rejected
TryReply(dir, chatId, text, failedText, o) ==
    IF o.send1 THEN Returned(dir, <<Request(chatId, text, TRUE)>>)
    ELSE IF o.send2
         THEN Returned(dir, <<Request(chatId, text, FALSE),
                              Request(chatId, failedText, TRUE)>>)
         ELSE Threw(dir, <<Request(chatId, text, FALSE),
                           Request(chatId, failedText, FALSE)>>)

TokenAccepted_Any(token) == TRUE

\* line 296
TokenAccepted(token) == token = appToken

\* the switch of lines 279-343
Dispatch(update, dir, o) ==
    LET chatId == update.chat
        text == update.text
        command == text[1]
    IN  CASE command = "/start" -> Reply(dir, chatId, "hello", o.send1)
          [] command = "/subscribe" ->
                IF Len(text) < 2 \/ text[2] = ""
                THEN Reply(dir, chatId, "provideToken", o.send1)
                ELSE IF ~TokenAccepted(text[2])
                THEN Reply(dir, chatId, "invalidToken", o.send1)
                ELSE IF o.write = "failed"
                THEN Reply(dir, chatId, "failedToSubscribe", o.send1)
                ELSE IF o.write = "verifyFailed"
                THEN Reply(dir \cup {chatId}, chatId, "failedToSubscribe", o.send1)
                ELSE TryReply(dir \cup {chatId}, chatId, "subscribed",
                              "failedToSubscribe", o)
          [] command = "/unsubscribe" ->
                IF o.write # "ok"
                THEN Reply(dir, chatId, "failedToUnsubscribe", o.send1)
                ELSE TryReply(dir \ {chatId}, chatId, "unsubscribed",
                              "failedToUnsubscribe", o)
          [] command = "/metrics" -> Reply(dir, chatId, "metrics", o.send1)
          [] OTHER -> Returned(dir, <<>>)

NeedsSubscription_NotMetrics(command) ==
    command \notin {"/start", "/subscribe", "/metrics"}

\* line 267
NeedsSubscription(command) == command \notin {"/start", "/subscribe"}

\* handleUpdate (lines 260-344) with the directory holding `dir': the
\* directory it leaves, the requests it makes, and whether it threw
handleUpdate(update, dir, o) ==
    IF update.text = <<>> THEN Returned(dir, <<>>)
    ELSE IF NeedsSubscription(update.text[1])
         THEN IF ~o.read THEN Threw(dir, <<>>)
              ELSE IF update.chat \notin dir
                   THEN Reply(dir, update.chat, "notSubscribed", o.send1)
                   ELSE Dispatch(update, dir, o)
         ELSE Dispatch(update, dir, o)

\* start (lines 200-219), called at line 463; getMeOk is what the getMe
\* request gave. setupCommands catches its own error (lines 229-234).
Start(getMeOk) ==
    /\ started = "no"
    /\ IF ~isEnabled
       THEN started' = "disabled" /\ UNCHANGED pollPc
       ELSE IF getMeOk
            THEN started' = "polling" /\ pollPc' = "getUpdates"
            ELSE started' = "failed" /\ UNCHANGED pollPc
    /\ UNCHANGED <<offset, batch, inbox, nextUpdateId, handledLog, thrown, lastUpdate, lastReplies,
                   requestFailures, outVars>>

\* a chat sends a message to the bot: the transport numbers it. (What the
\* message says is drawn when it is handled.)
UpdateArrives ==
    /\ nextUpdateId < FirstUpdateId + MaxUpdates
    /\ inbox' = Append(inbox, nextUpdateId)
    /\ nextUpdateId' = nextUpdateId + 1
    /\ UNCHANGED <<started, offset, pollPc, batch, handledLog, thrown, lastUpdate, lastReplies,
                   requestFailures, outVars>>

\* the updates the transport holds at or above the offset asked for
Pending(from) == SelectSeq(inbox, LAMBDA id : id >= from)

NextOffset_Same(update_id) == update_id

\* line 247
NextOffset(update_id) == update_id + 1

\* the for loop of lines 246-249 with `rest' to go through: the offset is
\* assigned and handleUpdate called, or the loop is over and line 254 polls
Loop(rest) ==
    IF rest = <<>>
    THEN /\ pollPc' = "getUpdates"
         /\ batch' = <<>>
         /\ UNCHANGED <<offset, handledLog>>
    ELSE /\ pollPc' = "handleUpdate"
         /\ batch' = rest
         /\ offset' = NextOffset(Head(rest))
         /\ handledLog' = Append(handledLog, Head(rest))

\* the getUpdates request of line 241 is answered with the first n updates
\* at or above the offset (none when the long poll times out); the transport
\* forgets the updates below the offset, which the request confirms
GetUpdatesOk(n) ==
    /\ pollPc = "getUpdates"
    /\ n \in 0..Len(Pending(offset))
    /\ inbox' = Pending(offset)
    /\ Loop(SubSeq(Pending(offset), 1, n))
    /\ UNCHANGED <<started, nextUpdateId, thrown, lastUpdate, lastReplies, requestFailures, outVars>>

GetUpdatesFail_Restarts ==
    /\ pollPc = "getUpdates"
    /\ requestFailures < MaxRequestFailures
    /\ requestFailures' = requestFailures + 1
    /\ pollPc' = "cooldown"
    /\ offset' = 0
    /\ UNCHANGED <<started, batch, inbox, nextUpdateId, handledLog, thrown, lastUpdate,
                   lastReplies, outVars>>

\* the getUpdates request fails: lines 250-252
GetUpdatesFail ==
    /\ pollPc = "getUpdates"
    /\ requestFailures < MaxRequestFailures
    /\ requestFailures' = requestFailures + 1
    /\ pollPc' = "cooldown"
    /\ UNCHANGED <<started, offset, batch, inbox, nextUpdateId, handledLog, thrown, lastUpdate, lastReplies, outVars>>

\* the handleUpdate of line 248 is over: the loop goes on, or the catch of
\* line 250 takes the error
HandleUpdateDone(chatId, text, o) ==
    /\ pollPc = "handleUpdate"
    /\ LET update == Update(Head(batch), chatId, text)
           r == handleUpdate(update, chats, o)
       IN  /\ chats' = r.chats
           /\ lastUpdate' = update
           /\ lastReplies' = r.replies
           /\ IF r.threw
              THEN /\ thrown' = thrown \cup {Head(batch)}
                   /\ pollPc' = "cooldown"
                   /\ batch' = <<>>
                   /\ UNCHANGED <<offset, handledLog>>
              ELSE /\ Loop(Tail(batch))
                   /\ UNCHANGED thrown
    /\ UNCHANGED <<started, inbox, nextUpdateId, requestFailures, isEnabled, messageQueue,
                   isProcessingQueue, sending, nextMsg, deliveryLog, produced, responses>>

\* the timer of line 252 fires, and line 254 polls
CooldownElapsed ==
    /\ pollPc = "cooldown"
    /\ pollPc' = "getUpdates"
    /\ UNCHANGED <<started, offset, batch, inbox, nextUpdateId, handledLog, thrown, lastUpdate, lastReplies,
                   requestFailures, outVars>>

----------------------------------------------------------------------------
(* The two MetricsCache classes *)

\* SOURCES (drizzle.config.ts, lines 28-39)
SOURCES ==
    <<[id |-> "production", name |-> "production"],
      [id |-> "development", name |-> "development"]>>

\* the source ids formatMetrics is asked about: those of SOURCES and another
SourceIds == {"production", "development", "staging"}

CounterFields ==
    {"totalBoards", "newBoardsToday", "totalUsers", "newUsersToday", "totalBoardEvents",
     "firstPaymentsToday", "renewalsToday", "totalPayingUsers"}

\* the counters a dashboard answers with, or POST /metrics is given
Counters ==
    {[f \in CounterFields |-> 0],
     [totalBoards |-> 1, newBoardsToday |-> 2, totalUsers |-> 3, newUsersToday |-> 4,
      totalBoardEvents |-> 5, firstPaymentsToday |-> 6, renewalsToday |-> 7,
      totalPayingUsers |-> 8]}

InitMetricsVars ==
    /\ metrics = <<>>
    /\ snapshot = <<>>
    /\ metricsClock = 0
    /\ everStored = {}

\* the element made at lines 30-35 for SOURCES[k]
Fetched(k, json, now) ==
    [id |-> SOURCES[k].id, name |-> SOURCES[k].name, data |-> json, lastUpdated |-> now]

\* lines 22-40: the fulfilled elements, in the order of SOURCES; results[k] is
\* <<>> for a rejected fetch, <<json>> for a fulfilled one
RECURSIVE Fulfilled(_, _, _)
Fulfilled(k, results, now) ==
    IF k > Len(SOURCES) THEN <<>>
    ELSE (IF results[k] = <<>> THEN <<>> ELSE <<Fetched(k, results[k][1], now)>>)
            \o Fulfilled(k + 1, results, now)

\* what the fetches of one updateMetrics may give
FetchResults == [1..Len(SOURCES) -> {<<>>} \cup {<<c>> : c \in Counters}]

\* services/MetricsCache.ts, updateMetrics (lines 21-42)
updateMetrics(results) ==
    /\ metricsClock < MaxMetricsUpdates
    /\ metricsClock' = metricsClock + 1
    /\ metrics' = Fulfilled(1, results, metricsClock + 1)
    /\ everStored' = everStored \cup {metrics'[k].id : k \in DOMAIN metrics'}
    /\ UNCHANGED snapshot

getMetrics_First(sourceId) == IF metrics = <<>> THEN <<>> ELSE <<metrics[1]>>

\* services/MetricsCache.ts, getMetrics (lines 44-46): <<>> is null
getMetrics(sourceId) ==
    LET found == SelectSeq(metrics, LAMBDA m : m.id = sourceId)
    IN  IF found = <<>> THEN <<>> ELSE <<found[1]>>

\* the texts formatMetrics gives, by their parts
NoDataYet == [text |-> "No metrics data available yet"]

NoDataForSource(sourceId) ==
    [text |-> "No metrics data available for source", source |-> sourceId]

\* the template of lines 63-73, with what it interpolates
Dashboard(lastUpdated, name, data) ==
    [text |-> "Dashboard Metrics", date |-> lastUpdated, env |-> name, counters |-> data]

\* services/MetricsCache.ts, formatMetrics (lines 48-74)
formatMetrics(sourceId) ==
    IF Len(metrics) = 0 THEN NoDataYet
    ELSE LET m == getMetrics(sourceId)
         IN  IF m = <<>> THEN NoDataForSource(sourceId)
             ELSE Dashboard(m[1].lastUpdated, m[1].name, m[1].data)

\* logger.ts, updateMetrics (lines 70-76)
updateSnapshot(json) ==
    /\ metricsClock < MaxMetricsUpdates
    /\ metricsClock' = metricsClock + 1
    /\ snapshot' = <<[data |-> json, lastUpdated |-> metricsClock + 1]>>
    /\ UNCHANGED <<metrics, everStored>>

\* the template of logger.ts, lines 93-104
SnapshotDashboard(lastUpdated, data) ==
    [text |-> "Dashboard Metrics", date |-> lastUpdated, counters |-> data]

\* logger.ts, formatMetrics (lines 82-106)
formatSnapshot ==
    IF snapshot = <<>> THEN NoDataYet
    ELSE SnapshotDashboard(snapshot[1].lastUpdated, snapshot[1].data)

----------------------------------------------------------------------------
(* The specifications *)

InitPureVars ==
    /\ call = <<>>
    /\ ret = <<>>

InitQueue ==
    /\ service = "QueueService"
    /\ InitQueueVars
    /\ InitOutVars
    /\ InitPollVars
    /\ InitMetricsVars
    /\ InitPureVars

NextQueue ==
    \/ \E type \in Types : addToQueue(type) /\ UNCHANGED <<service, outVars, pollVars, metricsVars, pureVars>>
    \/ Tick /\ UNCHANGED <<service, outVars, pollVars, metricsVars, pureVars>>
    \/ \E i \in DOMAIN passes : SendOk(i) /\ UNCHANGED <<service, outVars, pollVars, metricsVars, pureVars>>
    \/ \E i \in DOMAIN passes : SendFail(i) /\ UNCHANGED <<service, outVars, pollVars, metricsVars, pureVars>>
    \/ Advance /\ UNCHANGED <<service, outVars, pollVars, metricsVars, pureVars>>

SpecQueue == InitQueue /\ [][NextQueue]_vars

\* The timer of line 113 keeps firing, every awaited send is settled, and
\* time passes.
SettleSend ==
    /\ \E i \in DOMAIN passes : SendOk(i) \/ SendFail(i)
    /\ UNCHANGED <<service, outVars, pollVars, metricsVars, pureVars>>

FairSpecQueue ==
    /\ SpecQueue
    /\ WF_vars(Tick /\ UNCHANGED <<service, outVars, pollVars, metricsVars, pureVars>>)
    /\ WF_vars(SettleSend)
    /\ WF_vars(Advance /\ UNCHANGED <<service, outVars, pollVars, metricsVars, pureVars>>)

\* texts given to broadcastMessage in SpecOut
ShortTexts == {Str(<<"h", "i">>)}

InitOut ==
    /\ service = "TelegramNotifier"
    /\ InitQueueVars
    /\ isEnabled \in BOOLEAN
    /\ chats \in SUBSET Chats
    /\ messageQueue = <<>>
    /\ isProcessingQueue = FALSE
    /\ sending = <<>>
    /\ nextMsg = 0
    /\ deliveryLog = [e \in (1..MaxBroadcasts) \X Chats |-> [ok |-> 0, fail |-> 0]]
    /\ produced = [n \in 1..MaxBroadcasts |-> <<>>]
    /\ responses = [n \in 1..MaxBroadcasts |-> "none"]
    /\ InitPollVars
    /\ InitMetricsVars
    /\ InitPureVars

NextOut ==
    \/ \E text \in ShortTexts, select \in Selects :
          broadcastMessage(text, NoMeta, select) /\ UNCHANGED <<service, queueVars, pollVars, metricsVars, pureVars>>
    \/ \E k \in DOMAIN sending : FetchOk(k) /\ UNCHANGED <<service, queueVars, pollVars, metricsVars, pureVars>>
    \/ \E k \in DOMAIN sending : FetchFail(k) /\ UNCHANGED <<service, queueVars, pollVars, metricsVars, pureVars>>
    \/ \E k \in DOMAIN sending : BackoffElapsed(k) /\ UNCHANGED <<service, queueVars, pollVars, metricsVars, pureVars>>
    \/ \E k \in DOMAIN sending : RateLimitElapsed(k) /\ UNCHANGED <<service, queueVars, pollVars, metricsVars, pureVars>>
    \/ \E c \in Chats : addChat(c) /\ UNCHANGED <<service, queueVars, pollVars, metricsVars, pureVars>>
    \/ \E c \in Chats : removeChat(c) /\ UNCHANGED <<service, queueVars, pollVars, metricsVars, pureVars>>

SpecOut == InitOut /\ [][NextOut]_vars

\* QueueService and TelegramNotifier, one of them per behaviour
InitServices == InitQueue \/ InitOut

NextServices ==
    \/ service = "QueueService" /\ NextQueue
    \/ service = "TelegramNotifier" /\ NextOut

SpecServices == InitServices /\ [][NextServices]_vars

\* the dispatcher's awaits end: a fetch is settled, a timer fires
Settle ==
    \E k \in DOMAIN sending :
        /\ FetchOk(k) \/ FetchFail(k) \/ BackoffElapsed(k) \/ RateLimitElapsed(k)
        /\ UNCHANGED <<service, queueVars, pollVars, metricsVars, pureVars>>

FairSpecOut == SpecOut /\ WF_vars(Settle)

\* start and the polling loop, with chats writing to the bot
InitPoll ==
    /\ service = "Polling"
    /\ InitQueueVars
    /\ isEnabled \in BOOLEAN
    /\ chats \in SUBSET Chats
    /\ messageQueue = <<>>
    /\ isProcessingQueue = FALSE
    /\ sending = <<>>
    /\ nextMsg = 0
    /\ deliveryLog = [e \in (1..MaxBroadcasts) \X Chats |-> [ok |-> 0, fail |-> 0]]
    /\ produced = [n \in 1..MaxBroadcasts |-> <<>>]
    /\ responses = [n \in 1..MaxBroadcasts |-> "none"]
    /\ InitPollVars
    /\ InitMetricsVars
    /\ InitPureVars

NextPoll ==
    \/ \E getMeOk \in BOOLEAN : Start(getMeOk) /\ UNCHANGED <<service, queueVars, metricsVars, pureVars>>
    \/ UpdateArrives /\ UNCHANGED <<service, queueVars, metricsVars, pureVars>>
    \/ \E n \in 0..MaxUpdates : GetUpdatesOk(n) /\ UNCHANGED <<service, queueVars, metricsVars, pureVars>>
    \/ GetUpdatesFail /\ UNCHANGED <<service, queueVars, metricsVars, pureVars>>
    \/ \E c \in Chats, text \in Texts, o \in Outcomes :
          HandleUpdateDone(c, text, o) /\ UNCHANGED <<service, queueVars, metricsVars, pureVars>>
    \/ CooldownElapsed /\ UNCHANGED <<service, queueVars, metricsVars, pureVars>>

SpecPoll == InitPoll /\ [][NextPoll]_vars

\* the loop's awaits end: a request is answered, a handler returns, a timer fires
PollStep ==
    /\ \/ \E n \in 0..MaxUpdates : GetUpdatesOk(n)
       \/ \E c \in Chats, text \in Texts, o \in Outcomes : HandleUpdateDone(c, text, o)
       \/ CooldownElapsed
    /\ UNCHANGED <<service, queueVars, metricsVars, pureVars>>

FairSpecPoll == SpecPoll /\ WF_vars(PollStep)

\* the two caches, updated in any order
InitMetrics ==
    /\ service = "MetricsCache"
    /\ InitQueueVars
    /\ InitOutVars
    /\ InitPollVars
    /\ InitMetricsVars
    /\ InitPureVars

NextMetrics ==
    \/ \E results \in FetchResults :
          updateMetrics(results) /\ UNCHANGED <<service, queueVars, outVars, pollVars, pureVars>>
    \/ \E json \in Counters :
          updateSnapshot(json) /\ UNCHANGED <<service, queueVars, outVars, pollVars, pureVars>>

SpecMetrics == InitMetrics /\ [][NextMetrics]_vars

\* the process: start() is awaited at line 463, then the routes that call
\* broadcastMessage are served whichever way start() ended (its rejection is
\* caught at line 463)
NextApp ==
    \/ \E getMeOk \in BOOLEAN :
          Start(getMeOk) /\ UNCHANGED <<service, queueVars, metricsVars, pureVars>>
    \/ started # "no" /\ NextOut

SpecApp == InitOut /\ [][NextApp]_vars

\* The functions called on their own.
TextLengths ==
    {0, 1, MAX_LENGTH - 100, MAX_LENGTH - 1, MAX_LENGTH, MAX_LENGTH + 1, MaxTextLen}

LongTexts ==
    {Concat(Run("a", n - k), Run("b", k)) :
        <<n, k>> \in {x \in TextLengths \X {0, 1, 150} : x[2] <= x[1]}}

Metas ==
    [boardId : {<<>>, Str(<<"b", "7">>)},
     operationContext : {<<>>, Run("o", 60)},
     errorContext : {<<>>, Run("e", 80)}]

Calls ==
    {[fn |-> "getRetryDelay", arg |-> a] : a \in 1..MaxAttemptsArg}
        \cup {[fn |-> "truncateMessage", arg |-> t] : t \in LongTexts}
        \cup {[fn |-> "broadcastMessage", arg |-> [text |-> t, meta |-> m]] :
                    t \in LongTexts, m \in Metas}

InitPure ==
    /\ service = "functions"
    /\ InitQueueVars
    /\ isEnabled = TRUE
    /\ chats = Chats
    /\ messageQueue = <<>>
    /\ isProcessingQueue = FALSE
    /\ sending = <<>>
    /\ nextMsg = 0
    /\ deliveryLog = [e \in (1..MaxBroadcasts) \X Chats |-> [ok |-> 0, fail |-> 0]]
    /\ produced = [n \in 1..MaxBroadcasts |-> <<>>]
    /\ responses = [n \in 1..MaxBroadcasts |-> "none"]
    /\ InitPollVars
    /\ InitMetricsVars
    /\ call \in Calls
    /\ ret = <<>>

CallGetRetryDelay ==
    /\ call.fn = "getRetryDelay" /\ ret = <<>>
    /\ ret' = <<getRetryDelay(call.arg)>>
    /\ UNCHANGED <<service, queueVars, outVars, pollVars, metricsVars, call>>

CallTruncateMessage ==
    /\ call.fn = "truncateMessage" /\ ret = <<>>
    /\ ret' = <<truncateMessage(call.arg)>>
    /\ UNCHANGED <<service, queueVars, outVars, pollVars, metricsVars, call>>

CallBroadcastMessage ==
    /\ call.fn = "broadcastMessage" /\ ret = <<>>
    /\ \E select \in Selects : broadcastMessage(call.arg.text, call.arg.meta, select)
    /\ ret' = <<TRUE>>
    /\ UNCHANGED <<service, queueVars, pollVars, metricsVars, call>>

NextPure ==
    \/ CallGetRetryDelay
    \/ CallTruncateMessage
    \/ CallBroadcastMessage

SpecPure == InitPure /\ [][NextPure]_vars

----------------------------------------------------------------------------
(* QueueService: the claims *)

Range(s) == {s[k] : k \in DOMAIN s}

HeldIds == {m.id : m \in Held}

RECURSIVE OksUpTo(_)
OksUpTo(n) == IF n = 0 THEN 0 ELSE sendLog[n].ok + OksUpTo(n - 1)

\* C1: getQueueStatus().totalMessages equals the number of messages enqueued
\* minus the number sent successfully minus the number permanently dropped,
\* in every reachable state (a pass suspended at a send included).
C1_TotalMessages ==
    getQueueStatus.totalMessages
        = nextId - OksUpTo(MaxMessages) - Cardinality(dropped)

\* C3 as stated: a message whose failed send brought its attempts to
\* maxAttempts is removed from the queue (so none with that count is held).
C3_RemovedAtMaxAttempts ==
    \A m \in Held : m.attempts < maxAttempts

\* C3 as amended: a message is removed exactly by the failed send made when
\* its attempts already equal maxAttempts (its failure number maxAttempts + 1);
\* from then on it is neither queued nor in a pass, and no send of it is
\* settled again.
C3_RemovedAfterMaxAttempts ==
    \A id \in 1..MaxMessages :
        /\ id \in dropped <=> sendLog[id].fail = maxAttempts + 1
        /\ sendLog[id].fail <= maxAttempts + 1
        /\ id \in dropped => id \notin HeldIds /\ sendLog[id].ok = 0

C3_Witness == dropped # {}

\* C4: every held message has 0 <= attempts <= maxAttempts, and a failed send
\* that would raise attempts above maxAttempts drops the message instead of
\* re-queueing it.
C4_AttemptsRange ==
    \A m \in Held : 0 <= m.attempts /\ m.attempts <= maxAttempts

C4_DropStep ==
    \A i \in DOMAIN passes :
        LET m == Head(passes[i].rest)
        IN  (sendLog'[m.id].fail = sendLog[m.id].fail + 1 /\ m.attempts + 1 > maxAttempts)
                => /\ m.id \in dropped'
                   /\ m.id \notin {h.id : h \in Held'}

C4_AttemptsBounded == [](C4_AttemptsRange) /\ [][C4_DropStep]_vars

C4_Witness ==
    \E i \in DOMAIN passes : Head(passes[i].rest).attempts = maxAttempts

\* C10: in a pass, a message is handed to the transport if and only if it has
\* never been attempted or now - lastAttempt >= getRetryDelay(attempts), `now'
\* being the pass's Date of line 142; a message that is not ready stays in the
\* queue, unchanged, and is not sent in that pass.
ReadyAt(m, now) ==
    m.lastAttempt = NoDate \/ now - m.lastAttempt[1] >= getRetryDelay(m.attempts)

\* the message a pass is sending was ready when the pass started
C10_SentIsReady ==
    \A i \in DOMAIN passes : ReadyAt(Head(passes[i].rest), passes[i].now)

\* A step in which the loop moved on from the messages `todo' to those of
\* `rest': the ones passed over were not ready and are in the queue as they
\* were, and the one it stopped at is ready.
C10_Scanned(todo, rest, now) ==
    LET k == Len(todo) - Len(rest)
    IN  /\ k >= 0
        /\ rest = SubSeq(todo, k + 1, Len(todo))
        /\ \A j \in 1..k : ~ReadyAt(todo[j], now) /\ todo[j] \in Range(queue')
        /\ rest # <<>> => ReadyAt(Head(rest), now)

C10_Step ==
    \* processQueue called (by the timer or by addToQueue) with no pass running
    /\ (~isProcessing /\ clock' = clock /\ passes = <<>>)
          => LET todo == IF nextId' = nextId THEN queue
                         ELSE Append(queue, CHOOSE m \in Held' : m.id = nextId')
             IN  C10_Scanned(todo, IF passes' = <<>> THEN <<>> ELSE passes'[1].rest, clock)
    \* the send of a pass was settled and its loop went on
    /\ \A i \in DOMAIN passes :
          sendLog'[Head(passes[i].rest).id] # sendLog[Head(passes[i].rest).id]
             => C10_Scanned(Tail(passes[i].rest),
                            IF Len(passes') = Len(passes) THEN passes'[i].rest ELSE <<>>,
                            passes[i].now)

C10_ReadyIffSent == [](C10_SentIsReady) /\ [][C10_Step]_vars

\* a pass found a retried message ready and passed over one that was not
C10_Witness ==
    \E i \in DOMAIN passes :
        /\ Head(passes[i].rest).attempts >= 1
        /\ \E m \in Range(queue) :
              /\ m.lastAttempt # NoDate
              /\ m.lastAttempt[1] < passes[i].now
              /\ ~ReadyAt(m, passes[i].now)

----------------------------------------------------------------------------
(* Both services: the claims *)

Keys == (1..MaxBroadcasts) \X Chats

\* the entries of TelegramNotifier not yet settled: queued, or being sent
Outstanding == Range(messageQueue) \cup {sending[k].msg : k \in DOMAIN sending}

Queued(e) == \E x \in Outstanding : x.msg = e[1] /\ x.chatId = e[2]

\* C2: for every queued message and recipient, the transport's send completes
\* successfully at most once, whatever retries and later passes there are.
C2_SentOnceAtMost ==
    /\ \A id \in 1..MaxMessages : sendLog[id].ok <= 1
    /\ \A e \in Keys : deliveryLog[e].ok <= 1

\* a send succeeded on a retry (QueueService), and the service is idle again
C2_Witness ==
    /\ \E id \in 1..MaxMessages : sendLog[id].ok = 1 /\ sendLog[id].fail >= 1
    /\ ~isProcessing /\ nextId = MaxMessages

\* C9: at most one pass is in flight at any time; a call of processQueue or
\* processMessageQueue made while the flag is set starts nothing and leaves
\* the queue as the caller left it, so no message is being sent twice at once.
C9_OnePass ==
    /\ Len(passes) <= 1 /\ Len(sending) <= 1
    /\ isProcessing <=> passes # <<>>
    /\ isProcessingQueue <=> sending # <<>>
    /\ \A i, j \in DOMAIN passes :
          Head(passes[i].rest).id = Head(passes[j].rest).id => i = j
    /\ \A m \in Range(queue) : \A i \in DOMAIN passes :
          \A k \in DOMAIN passes[i].rest : passes[i].rest[k].id # m.id

C9_ReentrantStep ==
    /\ isProcessing =>
          /\ Len(passes') <= Len(passes)
          /\ clock' = clock /\ sendLog' = sendLog =>
                /\ passes' = passes
                /\ nextId' = nextId => queue' = queue
                /\ nextId' # nextId => SubSeq(queue', 1, Len(queue)) = queue
    /\ isProcessingQueue =>
          /\ Len(sending') <= Len(sending)
          /\ nextMsg' # nextMsg =>
                /\ sending' = sending
                /\ SubSeq(messageQueue', 1, Len(messageQueue)) = messageQueue

C9_SinglePass == [](C9_OnePass) /\ [][C9_ReentrantStep]_vars

\* addToQueue was called while a pass was suspended at its send
C9_Witness ==
    /\ isProcessing
    /\ \E m \in Range(queue) : m.attempts = 0

----------------------------------------------------------------------------
(* TelegramNotifier: the claims *)

\* C7: a message broadcast to the subscribed recipients A and B, with a
\* transport that fails B's first send and no other, is in the end received
\* by both; A gets one send, B one failed send and then the successful one.
\* (For every entry: once queued it is settled in the end, and delivered
\* exactly once if the transport failed at most one of its sends.)
C7_Settled(e) ==
    /\ ~Queued(e)
    /\ deliveryLog[e].fail <= 1 => deliveryLog[e].ok = 1

\* a broadcast that queues anything queues an entry for every subscribed chat
C7_QueuesAll ==
    LET queuedFor(c) == \E x \in Outstanding' : x.msg = nextMsg + 1 /\ x.chatId = c
    IN  (nextMsg' = nextMsg + 1 /\ \E c \in Chats : queuedFor(c))
            => \A c \in chats : queuedFor(c)

C7_BothReceive ==
    /\ \A e \in Keys : Queued(e) ~> C7_Settled(e)
    /\ [][C7_QueuesAll]_vars

C7_Witness ==
    /\ chats = {"A", "B"}
    /\ deliveryLog[<<1, "A">>] = [ok |-> 1, fail |-> 0]
    /\ deliveryLog[<<1, "B">>] = [ok |-> 1, fail |-> 1]
    /\ ~Queued(<<1, "A">>) /\ ~Queued(<<1, "B">>)

----------------------------------------------------------------------------
(* The functions: the claims *)

\* C5: getRetryDelay(attempts) is non-decreasing for attempts >= 1, is the
\* table entry at index attempts - 1 within the 7-entry table, and is the last
\* entry (3600000) for every attempts >= 7, getRetryDelay(100) included.
C5_DelayTable ==
    (call.fn = "getRetryDelay" /\ ret # <<>>) =>
        LET a == call.arg
            d == ret[1]
        IN  /\ a <= 7 => d = retryDelays[a]
            /\ a >= 7 => d = 3600000
            /\ \A b \in 1..a : getRetryDelay(b) <= d

C5_Witness ==
    call.fn = "getRetryDelay" /\ call.arg = 100 /\ ret = <<retryDelays[7]>>

EndsWith(str, tail) ==
    /\ StrLen(str) >= StrLen(tail)
    /\ Suffix(str, StrLen(str) - StrLen(tail)) = tail

\* what the texts on the way out are, given the text `joined' that
\* formatMessage put together
C8_QueuedTexts(P(_, _)) ==
    \A x \in Outstanding : P(produced[x.msg], x.message) /\ StrLen(x.message) <= 4096

C8_Called(P(_, _)) ==
    (call.fn = "truncateMessage" /\ ret # <<>>) => P(call.arg, ret[1])

\* C8 as stated: an input longer than 4096 characters gives exactly 4096
\* characters ending with the marker, a shorter one is returned unchanged;
\* every text broadcastMessage queues has at most 4096 characters.
C8_AsStated(input, output) ==
    IF StrLen(input) > 4096
    THEN StrLen(output) = 4096 /\ EndsWith(output, TruncationMarker)
    ELSE output = input

C8_TruncatedTo4096 == C8_Called(C8_AsStated) /\ C8_QueuedTexts(C8_AsStated)

\* C8 as amended: an input longer than 4096 characters gives exactly 4020
\* characters, its first 3996 followed by the 24 of the marker.
C8_AsAmended(input, output) ==
    IF StrLen(input) > 4096
    THEN /\ StrLen(output) = 4020
         /\ EndsWith(output, TruncationMarker)
         /\ Prefix(output, 3996) = Prefix(input, 3996)
    ELSE output = input

C8_TruncatedTo4020 == C8_Called(C8_AsAmended) /\ C8_QueuedTexts(C8_AsAmended)

\* a text of 5000 characters was broadcast and is queued, truncated
C8_Witness ==
    \E x \in Range(messageQueue) :
        StrLen(produced[x.msg]) >= 5000 /\ StrLen(x.message) = 4020

----------------------------------------------------------------------------
(* The polling loop: the claims *)

\* C6: with a transport that gives the updates at or above the offset asked
\* for, ids increasing (5, 6, 7), the loop calls handleUpdate on each update
\* exactly once and in ascending order, and ends with offset = last id + 1
\* (8), also when the handleUpdate of a middle update (6) throws.
C6_InOrderOnce ==
    /\ \A k \in DOMAIN handledLog : handledLog[k] = FirstUpdateId + k - 1
    /\ thrown \subseteq Range(handledLog)
    /\ offset = IF handledLog = <<>> THEN 0 ELSE handledLog[Len(handledLog)] + 1

\* every update the transport has numbered was handled and confirmed
C6_CaughtUp ==
    \A id \in FirstUpdateId..(nextUpdateId - 1) :
        id \in Range(handledLog) /\ offset > id

C6_AllHandled == []<>(started = "polling" => C6_CaughtUp)

C6_EachUpdateOnce == [](C6_InOrderOnce) /\ C6_AllHandled

\* 5, 6 and 7 were handled, 6 threw, and the loop polls with offset 8
C6_Witness ==
    /\ handledLog = <<5, 6, 7>>
    /\ thrown = {6}
    /\ offset = 8
    /\ pollPc = "getUpdates"

----------------------------------------------------------------------------
(* QueueService: the order of a pass *)

\* C11: within one pass the ready messages are handed to the transport in the
\* order they were enqueued, oldest first (ids are given in enqueue order):
\* the message being sent is older than every ready message the pass has
\* still to send.
C11_OldestFirst ==
    \A i \in DOMAIN passes :
        LET p == passes[i]
        IN  \A k \in 2..Len(p.rest) :
                IsReady(p.rest[k], p.now) => Head(p.rest).id < p.rest[k].id

----------------------------------------------------------------------------
(* handleUpdate: the claims *)

\* the step in which the handleUpdate of the update in handling ends
HandleUpdateStep == pollPc = "handleUpdate" /\ nextUpdateId' = nextUpdateId

\* C12: when the sender is not in the directory, a command other than /start
\* and /subscribe gets the fixed "not subscribed" reply and nothing else: the
\* directory is not changed and no metrics text is sent.
C12_Gate ==
    HandleUpdateStep =>
        LET u == lastUpdate'
            replies == lastReplies'
        IN  (u.text # <<>> /\ u.text[1] \notin {"/start", "/subscribe"} /\ u.chat \notin chats)
                => /\ chats' = chats
                   /\ Len(replies) <= 1
                   /\ \A k \in DOMAIN replies :
                         replies[k].chat_id = u.chat /\ replies[k].text = "notSubscribed"
                   /\ u.update_id \notin thrown' => Len(replies) = 1

C12_NotSubscribedOnly == [][C12_Gate]_vars

\* /metrics from a chat that is not subscribed was answered
C12_Witness ==
    /\ lastReplies # <<>>
    /\ lastUpdate.text = <<"/metrics">>
    /\ lastUpdate.chat \notin chats
    /\ lastReplies = <<Request(lastUpdate.chat, "notSubscribed", TRUE)>>

----------------------------------------------------------------------------
(* MetricsCache: the claims *)

Stored(sourceId) == \E k \in DOMAIN metrics : metrics[k].id = sourceId

CommandTable == {"/start", "/subscribe", "/unsubscribe", "/metrics"}

\* C19: a text whose first token is not a command of the command table is
\* ignored, whether or not its sender is subscribed: no request is sent, the
\* directory is not changed, and handleUpdate does not throw.
C19_IgnoredStep ==
    HandleUpdateStep =>
        LET u == lastUpdate'
        IN  (u.text # <<>> /\ u.text[1] \notin CommandTable)
                => /\ chats' = chats
                   /\ lastReplies' = <<>>
                   /\ thrown' = thrown

C19_NonCommandIgnored == [][C19_IgnoredStep]_vars

----------------------------------------------------------------------------
(* TelegramNotifier: broadcasts and the directory *)

\* C14: a failed read of the directory during a broadcast is taken as "no
\* recipients this pass": no error is returned or thrown to the producer that
\* called broadcastMessage.
C14_NoErrorToProducer ==
    \A n \in 1..MaxBroadcasts : responses[n] # "error"

\* C15: when the getMe request of start() has failed, neither the polling
\* loop nor a pass of processMessageQueue has started or ever starts: no
\* getUpdates and no sendMessage request is made.
C15_NothingAfterFailedStart ==
    started = "failed" =>
        /\ pollPc = "off"
        /\ ~isProcessingQueue
        /\ sending = <<>>
        /\ \A e \in Keys : deliveryLog[e] = [ok |-> 0, fail |-> 0]

\* C17: a notification broadcast while no chat is subscribed is kept pending
\* (it stays queued, to be delivered to the chats that subscribe later).
C17_BroadcastStep ==
    (nextMsg' = nextMsg + 1 /\ isEnabled /\ chats = {}
            /\ responses'[nextMsg + 1] = "success")
        => \E x \in Outstanding' : x.msg = nextMsg + 1

C17_KeptPending == [][C17_BroadcastStep]_vars

\* C18: between two consecutive sendMessage requests of a pass there is a
\* wait (the RATE_LIMIT_DELAY of line 191 or, before a retry, the backoff of
\* line 143, which is at least as long), whether the earlier request succeeded
\* or failed: a pass whose request has just been settled does not have its
\* next request under way in the same step.
C18_SendStep ==
    \A k \in DOMAIN sending \cap DOMAIN sending' :
        (sending[k].at = "fetch" /\ sending'[k].at = "fetch") => sending'[k] = sending[k]

C18_DelayBetweenSends == [][C18_SendStep]_vars

----------------------------------------------------------------------------
(* The polling loop: the offset *)

\* C16: offset is set to update_id + 1 only after the handleUpdate of that
\* update has finished: while an update is in handling, offset is not greater
\* than its id.
C16_OffsetAfterHandling ==
    pollPc = "handleUpdate" => offset <= Head(batch)

\* C20: offset never decreases in a step of the polling loop (the transport
\* giving increasing ids at or above the offset asked for); a getUpdates
\* request that fails leaves it unchanged, and so does the wait that follows,
\* after which the loop polls again.
C20_OffsetStep ==
    /\ offset' >= offset
    /\ requestFailures' # requestFailures => offset' = offset /\ pollPc' = "cooldown"
    /\ (pollPc = "cooldown" /\ pollPc' # pollPc) => offset' = offset /\ pollPc' = "getUpdates"

C20_OffsetMonotone == [][C20_OffsetStep]_vars

\* update 5 was handled, then a getUpdates request failed: offset is still 6
C20_Witness ==
    /\ requestFailures = 1
    /\ thrown = {}
    /\ pollPc = "cooldown"
    /\ offset = 6

----------------------------------------------------------------------------
(* MetricsCache: the lifetime of a snapshot *)

\* C21: once a source has a snapshot, getMetrics(source) never gives null
\* again, whatever updateMetrics calls follow (those in which the fetch for
\* that source fails included).
C21_SnapshotKept ==
    \A sourceId \in everStored : getMetrics(sourceId) # <<>>

----------------------------------------------------------------------------
(* QueueService: status, enqueueing, termination *)

\* C22: with a non-empty queue, getQueueStatus().oldestMessage is the least
\* createdAt of the pending messages (taken here as those in this.queue, the
\* reading most favourable to the code).
C22_OldestIsMinimum ==
    Len(queue) > 0 =>
        /\ getQueueStatus.oldestMessage # NoDate
        /\ \A k \in DOMAIN queue : getQueueStatus.oldestMessage[1] <= queue[k].createdAt

Attempted(id) == sendLog[id].ok + sendLog[id].fail >= 1

\* a message enqueued while the running pass was suspended: it is in the
\* queue, never attempted (the messages the pass puts back have a lastAttempt)
EnqueuedDuringPass(m) == isProcessing /\ m \in Range(queue) /\ m.attempts = 0

\* C23: addToQueue can be called in every state, a pass in flight included;
\* a message enqueued during a running pass is not lost: it stays in the
\* queue with attempts = 0 until the pass has ended, and a later pass sends it.
C23_Enabled ==
    nextId < MaxMessages => ENABLED (\E type \in Types : addToQueue(type))

C23_NotLost ==
    /\ C23_Enabled
    /\ \A id \in 1..nextId : id \in HeldIds \/ sendLog[id].ok >= 1 \/ id \in dropped

C23_KeptStep ==
    \A m \in Range(queue) : EnqueuedDuringPass(m) => m \in Range(queue')

C23_SentLater ==
    \A id \in 1..MaxMessages :
        (\E m \in Range(queue) : m.id = id /\ EnqueuedDuringPass(m)) ~> Attempted(id)

C23_EnqueueDuringPass == [](C23_NotLost) /\ [][C23_KeptStep]_vars /\ C23_SentLater

\* message 2 was enqueued while the pass sending message 1 was running, and
\* message 1 was put back behind it: a later pass is sending message 2
C23_Witness ==
    \E i \in DOMAIN passes :
        /\ Len(passes[i].rest) = 2
        /\ passes[i].rest[1].id = 2 /\ passes[i].rest[1].attempts = 0
        /\ passes[i].rest[2].id = 1

Left(id) == id \notin HeldIds /\ (sendLog[id].ok >= 1 \/ id \in dropped)

\* C24: with the timer firing, sends being settled and time passing, every
\* message enqueued leaves the service in the end, sent or dropped, whatever
\* sends fail; and every pass ends with the flag cleared.
C24_AllLeave ==
    /\ \A id \in 1..MaxMessages : (nextId >= id) ~> Left(id)
    /\ []<>(~isProcessing)

\* a message was dropped after its last retry, and nothing is left
C24_Witness ==
    /\ dropped # {}
    /\ \A id \in 1..nextId : Left(id)
    /\ ~isProcessing /\ queue = <<>>

----------------------------------------------------------------------------
(* handleUpdate: the directory *)

\* C25: a handled update adds a chat to the directory only if it is a
\* /subscribe whose second token is the app token (not missing, not empty),
\* and then the sender's chat; it removes a chat only if it is an
\* /unsubscribe, and then the sender's chat.
C25_DirectoryStep ==
    HandleUpdateStep =>
        LET u == lastUpdate'
        IN  /\ chats' \subseteq chats \cup {u.chat}
            /\ chats \subseteq chats' \cup {u.chat}
            /\ chats' \ chats # {}
                  => /\ Len(u.text) >= 2
                     /\ u.text[1] = "/subscribe"
                     /\ u.text[2] = appToken /\ u.text[2] # ""
            /\ chats \ chats' # {} => u.text # <<>> /\ u.text[1] = "/unsubscribe"

C25_SubscribeByToken == [][C25_DirectoryStep]_vars

\* a chat has subscribed with the app token
C25_Witness ==
    /\ lastReplies # <<>>
    /\ lastUpdate.text = <<"/subscribe", appToken>>
    /\ lastUpdate.chat \in chats
    /\ lastReplies = <<Request(lastUpdate.chat, "subscribed", TRUE)>>

----------------------------------------------------------------------------
(* QueueService: lastAttempt *)

\* C26: a message the service holds has a lastAttempt exactly when its
\* attempts is at least 1, so the getRetryDelay of line 148, evaluated for
\* the messages with a lastAttempt, is never given attempts = 0.
C26_LastAttemptIffAttempted ==
    \A m \in Held :
        /\ m.lastAttempt # NoDate <=> m.attempts >= 1
        /\ m.lastAttempt # NoDate => getRetryDelay(m.attempts) \in Range(retryDelays)

\* a message that has failed once is held together with one never attempted
C26_Witness ==
    /\ \E m \in Held : m.attempts = 1 /\ m.lastAttempt # NoDate
    /\ \E m \in Held : m.attempts = 0 /\ m.lastAttempt = NoDate

====
